---- MODULE Spec2Model ----
(***************************************************************************)
(* A model of the monitoring engine of wifi-experiment-controller:        *)
(* MonitorConfig::start (src/monitor.rs), with its association-id          *)
(* discovery, Host::capture (src/capture.rs), Host::associate              *)
(* (src/connection.rs), iwlwifi::set_association_id                        *)
(* (src/driver/wifi/iwlwifi.rs), Hosts::get_many (src/hosts.rs), and      *)
(* Monitor::wait / Monitor::abort (specification Spec); of run_all         *)
(* (src/utils.rs) as the server task of the scripts, with the scripts'     *)
(* final select! (src/scripts/iperf.rs, src/scripts/downlink.rs;           *)
(* specifications SpecScript, SpecScriptFair); and of                      *)
(* HostsConfig::connect with the registry it returns (src/hosts.rs;        *)
(* specification SpecHosts).                                               *)
(*                                                                         *)
(* Text (paths, the discovery output) is a sequence of one-character       *)
(* strings, so that path and number conversions are computed.              *)
(***************************************************************************)
EXTENDS Integers, Sequences, FiniteSets, TLC

\* ----------------------------------------------------------------- bounds

\* Longest target list of a MonitorConfig.
MaxTargets == 2
\* Most bytes a remote capture process writes to its standard output.
MaxBytes == 2
\* Most lines after the header line in the discovery output.
MaxAidLines == 2

\* ---------------------------------------------------------------- helpers

Min(a, b) == IF a <= b THEN a ELSE b

Range(s) == {s[i] : i \in 1..Len(s)}

\* All sequences over S of length at most n.
BoundedSeq(S, n) == UNION {[1..k -> S] : k \in 0..n}

\* Option<T> is a set with at most one element.
None == {}
Some(x) == {x}

\* ------------------------------------------------------------ the registry

\* The hosts the registry holds (Hosts.map), with their wifi_driver.
RegistryIds == {"mon1", "mon2", "sta1"}

\* An id no host of the registry has.
UnknownId == "ghost"

wifi_driver(id) ==
    CASE id = "mon1" -> Some("iwlwifi")
      [] id = "mon2" -> Some("ath9k")
      [] OTHER -> None

\* The characters of a host id.
IdChars(id) ==
    CASE id = "mon1" -> <<"m", "o", "n", "1">>
      [] id = "mon2" -> <<"m", "o", "n", "2">>
      [] id = "sta1" -> <<"s", "t", "a", "1">>
      [] OTHER -> <<"g", "h", "o", "s", "t">>

\* Hosts::get on a registry with the key set map: the host of an id, if the
\* registry has one. A host stands for itself by its id.
Hosts_get(map, id) == IF id \in map THEN Some(id) ELSE None

\* iter.clone().find(|id| self.get(id).is_none()) from position i on.
RECURSIVE find_missing(_, _, _)
find_missing(map, ids, i) ==
    IF i > Len(ids) THEN None
    ELSE IF Hosts_get(map, ids[i]) = None THEN Some(ids[i])
    ELSE find_missing(map, ids, i + 1)

\* Hosts_get_many as it would be if it returned the hosts it found.
Hosts_get_many_partial(map, ids) ==
    [ok |-> TRUE, missing |-> "",
     hosts |-> SelectSeq(ids, LAMBDA id : Hosts_get(map, id) # None)]

\* Hosts::get_many on a registry with the key set map: Err(missing) with
\* the first id that has no host, or the hosts of the ids, in their order.
Hosts_get_many(map, ids) ==
    LET missing == find_missing(map, ids, 1)
    IN  IF missing # None
        THEN [ok |-> FALSE, missing |-> CHOOSE id \in missing : TRUE, hosts |-> <<>>]
        ELSE [ok |-> TRUE, missing |-> "",
              hosts |-> [i \in 1..Len(ids) |-> CHOOSE h \in Hosts_get(map, ids[i]) : TRUE]]

\* all_except as it would be if only the first excluded id were honoured.
all_except_first_only(map, values, excluded_ids) ==
    SelectSeq(values, LAMBDA host : excluded_ids = <<>> \/ host # excluded_ids[1])

\* Hosts::all_except on a registry with the key set map whose values()
\* iterates in the order of values: the excluded ids that have a host are
\* collected into a set, and the values not in it are yielded.
all_except(map, values, excluded_ids) ==
    LET set == {id \in Range(excluded_ids) : Hosts_get(map, id) # None}
    IN  SelectSeq(values, LAMBDA host : host \notin set)

\* Hosts::get: the host of an id, if the registry has one.
get(id) == Hosts_get(RegistryIds, id)

\* get_many as it would be if ids the registry does not hold were skipped.
get_many_skipping(ids) ==
    [ok |-> TRUE, missing |-> "",
     hosts |-> SelectSeq(ids, LAMBDA id : get(id) # None)]

\* Hosts::get_many: the first id, in iteration order, that the registry does
\* not hold, or the hosts of all ids in the order of ids.
get_many(ids) ==
    LET missing == {i \in 1..Len(ids) : get(ids[i]) = None}
    IN  IF missing # {}
        THEN [ok |-> FALSE, missing |-> ids[CHOOSE i \in missing : \A j \in missing : i <= j], hosts |-> <<>>]
        ELSE [ok |-> TRUE, missing |-> "", hosts |-> [i \in 1..Len(ids) |-> CHOOSE h \in get(ids[i]) : TRUE]]

\* ------------------------------------------------------------------ paths

\* MonitorConfig.output_path, when it is set.
OutputDir == <<"o", "u", "t">>

\* Path::join of a directory and a relative one-component name.
PathJoin(dir, name) == dir \o <<"/">> \o name

\* The position of the last c in s, 0 when there is none.
LastIndexOf(s, c) ==
    LET at == {i \in 1..Len(s) : s[i] = c}
    IN  IF at = {} THEN 0 ELSE CHOOSE i \in at : \A j \in at : j <= i

\* Path::with_extension: the extension of the file name (what follows its
\* last dot, unless the name starts with that dot) is replaced by ext.
with_extension(path, ext) ==
    LET slash == LastIndexOf(path, "/")
        name == SubSeq(path, slash + 1, Len(path))
        dot == LastIndexOf(name, ".")
        stem == IF dot <= 1 THEN name ELSE SubSeq(name, 1, dot - 1)
    IN  SubSeq(path, 1, slash) \o stem \o <<".">> \o ext

\* The directory a path lies in.
Parent(path) ==
    LET slash == LastIndexOf(path, "/")
    IN  IF slash = 0 THEN <<>> ELSE SubSeq(path, 1, slash - 1)

\* The extension the capture files are given.
Pcapng == <<"p", "c", "a", "p", "n", "g">>

\* v.join(&monitor_host.id).with_extension("pcapng"): the file of the
\* monitor host whose id has the characters id, in the directory dir.
capture_file(dir, id) == with_extension(PathJoin(dir, id), Pcapng)

\* The output_path of the CaptureConfig of a monitor host: None without an
\* output directory.
capture_output_path(output_path, id) ==
    IF output_path = None THEN None
    ELSE Some(capture_file(CHOOSE d \in output_path : TRUE, IdChars(id)))

\* ------------------------------------------- parsing the discovery output

\* str::lines: the text cut at every "\n"; a "\r" before the "\n" is dropped
\* and a last line without "\n" counts when it is not empty.
RECURSIVE LinesFrom(_, _, _)
LinesFrom(t, i, start) ==
    IF i > Len(t)
    THEN (IF start > Len(t) THEN <<>> ELSE <<SubSeq(t, start, Len(t))>>)
    ELSE IF t[i] = "\n"
         THEN <<IF start < i /\ t[i - 1] = "\r"
                THEN SubSeq(t, start, i - 2) ELSE SubSeq(t, start, i - 1)>>
              \o LinesFrom(t, i + 1, i + 1)
         ELSE LinesFrom(t, i + 1, start)

lines(t) == LinesFrom(t, 1, 1)

\* Iterator::skip(1).
skip1(s) == IF s = <<>> THEN <<>> ELSE Tail(s)

\* strip_prefix_0x as it would be if the prefix were left in place.
strip_prefix_nothing(v) == v

\* str::strip_prefix("0x").unwrap_or(v).
strip_prefix_0x(v) ==
    IF Len(v) >= 2 /\ v[1] = "0" /\ v[2] = "x" THEN SubSeq(v, 3, Len(v)) ELSE v

\* char::to_digit(16): -1 for a character that is no hexadecimal digit.
HexDigit(c) ==
    CASE c = "0" -> 0 [] c = "1" -> 1 [] c = "2" -> 2 [] c = "3" -> 3
      [] c = "4" -> 4 [] c = "5" -> 5 [] c = "6" -> 6 [] c = "7" -> 7
      [] c = "8" -> 8 [] c = "9" -> 9
      [] c \in {"a", "A"} -> 10 [] c \in {"b", "B"} -> 11 [] c \in {"c", "C"} -> 12
      [] c \in {"d", "D"} -> 13 [] c \in {"e", "E"} -> 14 [] c \in {"f", "F"} -> 15
      [] OTHER -> -1

\* The largest u16.
U16Max == 65535

\* The digits of s read in base 16 from the value acc on: -1 for an invalid
\* digit or a value above u16::MAX.
RECURSIVE HexDigits(_, _)
HexDigits(s, acc) ==
    IF s = <<>> THEN acc
    ELSE IF HexDigit(Head(s)) < 0 THEN -1
    ELSE IF acc * 16 + HexDigit(Head(s)) > U16Max THEN -1
    ELSE HexDigits(Tail(s), acc * 16 + HexDigit(Head(s)))

\* u16::from_str_radix(v, 16): -1 stands for Err. An empty string, a lone
\* sign and a minus sign are errors; a leading plus sign is accepted.
from_str_radix16(v) ==
    IF v = <<>> THEN -1
    ELSE IF v[1] = "+" THEN (IF Len(v) = 1 THEN -1 ELSE HexDigits(Tail(v), 0))
    ELSE HexDigits(v, 0)

\* The try_fold over the parsed lines: the identifiers in the order of the
\* lines, or an error when one line does not parse.
parse_aids(text) ==
    LET fold(ls) ==
            LET vals == [i \in 1..Len(ls) |->
                            from_str_radix16(strip_prefix_0x(ls[i]))]
            IN  IF \E i \in 1..Len(vals) : vals[i] < 0
                THEN [ok |-> FALSE, aids |-> <<>>]
                ELSE [ok |-> TRUE, aids |-> vals]
    IN  CHOOSE r \in {fold(ls) : ls \in {skip1(lines(text))}} : TRUE

\* The identifier the code assigns in place of the parsed list.
PlaceholderAid == 1

\* The identifier list the assignment loop runs over: the parsed list is
\* shadowed by the one-element list `vec![1]`.
assigned_aids(parsedList) == <<PlaceholderAid>>

\* What the discovery process may have written: nothing at all, or a header
\* line followed by at most MaxAidLines lines.
HeaderLine == <<"w", "l", "a", "n", ".", "f", "i", "x", "e", "d", ".", "a", "i", "d">>

AidLineChoices ==
    { <<"0", "x", "0", "0", "0", "2">>,        \* 2
      <<"0", "x", "c", "0", "0", "3">>,        \* 49155
      <<"f", "f", "f", "f">>,                  \* 65535, without the prefix
      <<"0", "x", "1", "0", "0", "0", "0">>,   \* 65536: too large
      <<"-">> }                                \* not a digit

RECURSIVE Unlines(_)
Unlines(ls) == IF ls = <<>> THEN <<>> ELSE Head(ls) \o <<"\n">> \o Unlines(Tail(ls))

DiscoveryOutputs ==
    {<<>>} \cup {Unlines(<<HeaderLine>> \o ls) : ls \in BoundedSeq(AidLineChoices, MaxAidLines)}

\* ------------------------------------------------------------------ state

VARIABLES
    cfg,            \* the MonitorConfig start consumes
    fs,             \* the local filesystem: the paths that exist
    pc,             \* where MonitorConfig::start stands
    startErr,       \* the error start returned, "" when none
    errArgs,        \* the values formatted into the message of that error
    monitor_hosts,  \* start's local: the resolved monitor hosts
    connected_hosts,\* start's local: the resolved target hosts
    calls,          \* every remote command issued so far, in order
    aidProc,        \* the discovery process on the first monitor host
    joins,          \* connection_join_set: the state of each associate task
    aidText,        \* start's local `aids: String`
    parsedAids,     \* start's local `aids: Vec<u16>`, the parsed list
    aids,           \* start's local `aids`, the list the loop runs over
    aidIdx,         \* the position of the assignment loop
    tasks,          \* Monitor.captures: the capture tasks
    done,           \* the capture tasks in the order they completed
    wpc,            \* where the caller's Monitor::wait stands
    waitResult,     \* the (host id, Capture) pairs wait returned
    aborted         \* whether Monitor::abort was called

startVars == <<pc, startErr, errArgs, monitor_hosts, connected_hosts>>
discVars == <<aidProc, joins, aidText, parsedAids, aids, aidIdx>>
capVars == <<tasks, done>>
waitVars == <<wpc, waitResult, aborted>>

\* The launch loop of MonitorConfig::start seen on its own, over host ids
\* given by their characters.
VARIABLES
    path_ids,       \* the ids of the monitor hosts, in the order of the list
    out_paths       \* the output path computed for each host so far

pathVars == <<path_ids, out_paths>>
monitorVars == <<cfg, fs, calls, startVars, discVars, capVars, waitVars, pathVars>>

\* The state of utils::run_all, run as the scripts' server task, and of the
\* scripts' final step that races the server task against a sleep.
VARIABLES
    ra_hosts,       \* the host iterable run_all is given
    ra_pc,          \* where run_all stands
    ra_n,           \* the counter the command builder captures (`n`)
    ra_cmds,        \* `commands`: the spawned command tasks
    ra_done,        \* the command tasks in the order they completed
    ra_out,         \* the Vec of (host, Output) pairs run_all returned
    ra_err,         \* the task whose error run_all returned, 0 when none
    timer,          \* the 1-second sleep of the final select!
    sel_pc,         \* where the script's final step stands
    killall         \* the `killall iperf3` command of the timeout branch

runAllVars == <<ra_hosts, ra_pc, ra_n, ra_cmds, ra_done, ra_out, ra_err>>
raceVars == <<timer, sel_pc, killall>>
scriptVars == <<runAllVars, raceVars>>

\* The state of HostsConfig::connect and of the registry it returns.
VARIABLES
    hc_hosts,       \* HostsConfig.hosts: the configured host ids, in order
    hc_pc,          \* where HostsConfig::connect stands
    hc_tasks,       \* `tasks`: one HostConfig::connect task per host
    hc_done,        \* the connect tasks in the order they completed
    hc_joined,      \* how many completed tasks join_next has handed over
    hc_map,         \* connect's local `hosts` map: the ids inserted so far
    hc_err,         \* the error connect returned, <<>> when none
    registry,       \* the Hosts connect returned: None, or Some(key set)
    query           \* the get_many / all_except call made on the registry

hostsVars == <<hc_hosts, hc_pc, hc_tasks, hc_done, hc_joined, hc_map, hc_err,
               registry, query>>

\* What the actions of MonitorConfig::start and of the captures leave alone.
restVars == <<scriptVars, hostsVars, pathVars>>

vars == <<monitorVars, scriptVars, hostsVars>>

\* The ids a configuration may name as monitors and as targets.
MonitorIds == {"mon1", "mon2", UnknownId}
TargetIds == {"sta1", UnknownId}

\* The monitor lists of the configurations: every list of at most two ids,
\* and the list of the one registered host that has no wifi_driver set.
\* The capture tasks of the monitor hosts run concurrently, each beside its
\* remote process, so the state space grows by the states of one task (some
\* fifty) with every further monitor host.
MonitorLists ==
    {<<>>} \cup {<<a>> : a \in MonitorIds} \cup {<<a, b>> : a, b \in MonitorIds}
           \cup {<<"sta1">>}

Configs ==
    [monitors : MonitorLists,
     targets : BoundedSeq(TargetIds, MaxTargets),
     set_aids : BOOLEAN,
     output_path : {None, Some(OutputDir)}]

\* The filesystem before start: empty, or the output directory left by an
\* earlier run, with or without that run's capture file of mon1.
FsChoices ==
    { {}, {OutputDir},
      {OutputDir} \cup capture_output_path(Some(OutputDir), "mon1") }

\* run_all has not been called and the script is not at its final step.
ScriptIdle ==
    /\ ra_hosts = <<>>
    /\ ra_pc = "idle"
    /\ ra_n = 0
    /\ ra_cmds = <<>>
    /\ ra_done = <<>>
    /\ ra_out = <<>>
    /\ ra_err = 0
    /\ timer = "unarmed"
    /\ sel_pc = "idle"
    /\ killall = "none"

\* The query record when the registry has not been queried.
NoQuery == [op |-> "none", ids |-> <<>>, ok |-> TRUE, missing |-> "", hosts |-> <<>>]

\* HostsConfig::connect has not been called.
PathIdle ==
    /\ path_ids = <<>>
    /\ out_paths = <<>>

HostsIdle ==
    /\ hc_hosts = <<>>
    /\ hc_pc = "idle"
    /\ hc_tasks = <<>>
    /\ hc_done = <<>>
    /\ hc_joined = 0
    /\ hc_map = {}
    /\ hc_err = <<>>
    /\ registry = None
    /\ query = NoQuery

Init ==
    /\ ScriptIdle
    /\ HostsIdle
    /\ PathIdle
    /\ cfg \in Configs
    /\ fs \in IF cfg.output_path = None THEN {{}} ELSE FsChoices
    /\ pc = "create_dir"
    /\ startErr = ""
    /\ errArgs = <<>>
    /\ monitor_hosts = <<>>
    /\ connected_hosts = <<>>
    /\ calls = <<>>
    /\ aidProc = "none"
    /\ joins = <<>>
    /\ aidText = <<>>
    /\ parsedAids = <<>>
    /\ aids = <<>>
    /\ aidIdx = 0
    /\ tasks = <<>>
    /\ done = <<>>
    /\ wpc = "idle"
    /\ waitResult = <<>>
    /\ aborted = FALSE

\* A remote command issued on a host, with what became of it: "ok" (spawned,
\* or run to an exit with success), "launch_err" or "exit_err".
Call(host, cmd, arg, res) == [host |-> host, cmd |-> cmd, arg |-> arg, res |-> res]

\* start returns Err with a message that carries args: its locals are
\* dropped.
FailWith(kind, args) ==
    /\ pc' = "failed"
    /\ startErr' = kind
    /\ errArgs' = args
    /\ monitor_hosts' = <<>>
    /\ connected_hosts' = <<>>
    /\ joins' = <<>>
    /\ aidText' = <<>>
    /\ parsedAids' = <<>>
    /\ aids' = <<>>
    /\ aidIdx' = 0

\* Fail as it would be if the error were recorded and start went on to the
\* capture phase.
FailAndGoOn(kind) ==
    /\ pc' = "launch"
    /\ startErr' = kind
    /\ errArgs' = <<>>
    /\ UNCHANGED <<monitor_hosts, connected_hosts, joins, aidText, parsedAids, aids, aidIdx>>

\* start returns Err with a message that has no argument.
Fail(kind) == FailWith(kind, <<>>)

\* ------------------------------------------------- MonitorConfig::start

\* fs::create_dir_all(output_path), when an output path is configured.
start_create_dir_all ==
    /\ pc = "create_dir"
    /\ IF cfg.output_path = None
       THEN /\ pc' = "resolve"
            /\ UNCHANGED <<fs, startErr, errArgs, monitor_hosts, connected_hosts, discVars>>
       ELSE \E io_ok \in BOOLEAN :
              IF io_ok
              THEN /\ fs' = fs \cup cfg.output_path
                   /\ pc' = "resolve"
                   /\ UNCHANGED <<startErr, errArgs, monitor_hosts, connected_hosts, discVars>>
              ELSE /\ Fail("could not create output path")
                   /\ UNCHANGED <<fs, aidProc>>
    /\ UNCHANGED <<restVars, cfg, calls, capVars, waitVars>>

\* hosts.get_many(monitors)?, then hosts.get_many(targets)?.
start_get_many ==
    /\ pc = "resolve"
    /\ LET m == get_many(cfg.monitors)
           t == get_many(cfg.targets)
       IN  IF ~m.ok \/ ~t.ok
           THEN /\ Fail("unknown host")
                /\ UNCHANGED aidProc
           ELSE /\ monitor_hosts' = m.hosts
                /\ connected_hosts' = t.hosts
                /\ pc' = IF cfg.set_aids THEN "aid_spawn" ELSE "launch"
                /\ UNCHANGED <<startErr, errArgs, discVars>>
    /\ UNCHANGED <<restVars, cfg, fs, calls, capVars, waitVars>>

\* get0 as it would be if an empty list fell back to a default host.
get0_or_default(hosts) == IF hosts = <<>> THEN Some("mon1") ELSE Some(hosts[1])

\* monitor_hosts.get(0): the first host of the list, if there is one.
get0(hosts) == IF hosts = <<>> THEN None ELSE Some(hosts[1])

\* aid_capture_spawned as it would be if the result of the spawn were not
\* looked at.
aid_capture_spawned_unchecked(r) == TRUE

\* Whether `.spawn().await.context(..)?` lets start go on: only when the
\* discovery process was spawned.
aid_capture_spawned(r) == r = "ok"

\* monitor_hosts.get(0), then the spawn of the discovery process on it.
start_spawn_aid_capture ==
    /\ pc = "aid_spawn"
    /\ IF get0(monitor_hosts) = None
       THEN /\ Fail("monitoring requires at least one monitor host")
            /\ UNCHANGED <<aidProc, calls>>
       ELSE LET h == CHOOSE host \in get0(monitor_hosts) : TRUE
            IN  \E r \in {"ok", "launch_err"} :
                  /\ calls' = Append(calls, Call(h, "tshark_aid", 0, r))
                  /\ IF aid_capture_spawned(r)
                     THEN /\ aidProc' = IF r = "ok" THEN "running" ELSE aidProc
                          /\ pc' = "join_spawn"
                          /\ UNCHANGED <<startErr, errArgs, monitor_hosts, connected_hosts,
                                         joins, aidText, parsedAids, aids, aidIdx>>
                     ELSE /\ Fail("failed to start AID monitor capture")
                          /\ UNCHANGED aidProc
    /\ UNCHANGED <<restVars, cfg, fs, capVars, waitVars>>

\* The discovery process ends (nothing in its command line bounds it: it
\* ends when it is stopped or fails on the remote host).
aid_capture_exit ==
    /\ aidProc = "running"
    /\ aidProc' = "exited"
    /\ UNCHANGED <<restVars, cfg, fs, calls, startVars, joins, aidText, parsedAids, aids, aidIdx,
                   capVars, waitVars>>

\* One associate task is spawned per target host.
start_spawn_associate ==
    /\ pc = "join_spawn"
    /\ joins' = [i \in 1..Len(connected_hosts) |-> "running"]
    /\ pc' = "join_all"
    /\ UNCHANGED <<restVars, cfg, fs, calls, startErr, errArgs, monitor_hosts, connected_hosts,
                   aidProc, aidText, parsedAids, aids, aidIdx, capVars, waitVars>>

\* What running a remote command to its end gives: it exits with success,
\* it cannot be launched or awaited, or it exits with another status.
CommandOutcomes == {"ok", "launch_err", "exit_err"}

\* associate_result as it would be if the exit status were not looked at.
associate_result_any_status(r) == r # "launch_err"

\* Whether Host::associate returns Ok for the outcome of its command: only
\* when the command ran and exited with success.
associate_result(r) == r = "ok"

\* Host::associate of the i-th target runs its command.
associate(i) ==
    /\ pc = "join_all"
    /\ joins[i] = "running"
    /\ \E r \in CommandOutcomes :
         /\ joins' = [joins EXCEPT ![i] = r]
         /\ calls' = Append(calls, Call(connected_hosts[i], "nmcli", 0, r))
    /\ UNCHANGED <<restVars, cfg, fs, startVars, aidProc, aidText, parsedAids, aids, aidIdx,
                   capVars, waitVars>>

\* connection_join_set.join_all(), then `result?` for each result.
start_join_all_associate ==
    /\ pc = "join_all"
    /\ \A i \in 1..Len(joins) : joins[i] # "running"
    /\ IF \E i \in 1..Len(joins) : ~associate_result(joins[i])
       THEN Fail("connecting to Wi-Fi network failed")
       ELSE /\ pc' = "read"
            /\ UNCHANGED <<startErr, errArgs, monitor_hosts, connected_hosts,
                           joins, aidText, parsedAids, aids, aidIdx>>
    /\ UNCHANGED <<restVars, cfg, fs, calls, aidProc, capVars, waitVars>>

\* read_to_string on the discovery process's stdout: it returns at the end
\* of the stream, with the text the process wrote, or with a read error.
start_read_aids ==
    /\ pc = "read"
    /\ aidProc = "exited"
    /\ \E text \in DiscoveryOutputs, read_ok \in BOOLEAN :
         IF read_ok
         THEN /\ aidText' = text
              /\ pc' = "parse"
              /\ UNCHANGED <<startErr, errArgs, monitor_hosts, connected_hosts,
                             joins, parsedAids, aids, aidIdx>>
         ELSE Fail("failed to read AID capture output to string")
    /\ UNCHANGED <<restVars, cfg, fs, calls, aidProc, capVars, waitVars>>

\* ZipLen as it would be if the assignment loop were passed over.
ZipLen_none(a, hosts) == 0

\* The number of (identifier, monitor host) pairs of the zip.
ZipLen(a, hosts) == Min(Len(a), Len(hosts))

\* The parse of the text, then the list the assignment loop will run over.
start_parse_aids ==
    /\ pc = "parse"
    /\ LET r == parse_aids(aidText)
       IN  IF ~r.ok
           THEN Fail("could not parse association ID")
           ELSE /\ parsedAids' = r.aids
                /\ aids' = assigned_aids(r.aids)
                /\ aidIdx' = 1
                /\ pc' = IF ZipLen(assigned_aids(r.aids), monitor_hosts) = 0
                         THEN "launch" ELSE "set_aid"
                /\ UNCHANGED <<startErr, errArgs, monitor_hosts, connected_hosts, joins, aidText>>
    /\ UNCHANGED <<restVars, cfg, fs, calls, aidProc, capVars, waitVars>>

\* is_supported_driver as it would be if a host with no driver set were
\* taken to have the supported one.
is_supported_driver_or_unset(driver) == driver = Some("iwlwifi") \/ driver = None

\* Whether the assignment loop calls the driver of a host.
is_supported_driver(driver) == driver = Some("iwlwifi")

\* The driver name the error message shows: other.unwrap_or("unknown").
unwrap_or_unknown(driver) == IF driver = None THEN "unknown" ELSE CHOOSE d \in driver : TRUE

\* set_association_id_is_err as it would be if the exit status of the
\* command were not looked at.
set_association_id_status_ignored(r) == r = "launch_err"

\* Whether iwlwifi::set_association_id returns Err: the command could not
\* be run, or it exited without success.
set_association_id_is_err(r) == r # "ok"

\* One pass of the loop over aids.iter().zip(monitor_hosts.iter()): the
\* driver of the host is matched and iwlwifi::set_association_id is awaited.
start_set_association_id ==
    /\ pc = "set_aid"
    /\ LET host == monitor_hosts[aidIdx]
       IN  IF ~is_supported_driver(wifi_driver(host))
           THEN /\ FailWith("cannot set association ID for unsupported driver",
                             <<unwrap_or_unknown(wifi_driver(host)), host>>)
                /\ UNCHANGED calls
           ELSE \E r \in CommandOutcomes :
                  /\ calls' = Append(calls, Call(host, "set_aid", aids[aidIdx], r))
                  /\ IF set_association_id_is_err(r)
                     THEN Fail("failed to set AID")
                     ELSE /\ aidIdx' = aidIdx + 1
                          /\ pc' = IF aidIdx + 1 > ZipLen(aids, monitor_hosts)
                                   THEN "launch" ELSE "set_aid"
                          /\ UNCHANGED <<startErr, errArgs, monitor_hosts, connected_hosts,
                                         joins, aidText, parsedAids, aids>>
    /\ UNCHANGED <<restVars, cfg, fs, aidProc, capVars, waitVars>>

\* NewTask as it would be if start awaited each capture before it returned:
\* the task is handed over with its capture complete.
NewTask_awaited(host) ==
    [host |-> host, st |-> "ok", kind |-> "buffer", path |-> None,
     sink |-> <<>>, out |-> <<>>, pipe |-> <<>>, proc |-> "exit_success", spawns |-> 1, err |-> ""]

\* A capture task as it is spawned: Host::capture has yet to start.
NewTask(host) ==
    [host |-> host, st |-> "create", kind |-> "none", path |-> None,
     sink |-> <<>>, out |-> <<>>, pipe |-> <<>>, proc |-> "none", spawns |-> 0, err |-> ""]

\* The capture tasks are spawned, one per monitor host, and start returns
\* Ok(Monitor); its locals are dropped.
start_spawn_captures ==
    /\ pc = "launch"
    /\ tasks' = [i \in 1..Len(monitor_hosts) |-> NewTask(monitor_hosts[i])]
    /\ pc' = "returned"
    /\ monitor_hosts' = <<>>
    /\ connected_hosts' = <<>>
    /\ joins' = <<>>
    /\ aidText' = <<>>
    /\ parsedAids' = <<>>
    /\ aids' = <<>>
    /\ aidIdx' = 0
    /\ UNCHANGED <<restVars, cfg, fs, calls, startErr, errArgs, aidProc, done, waitVars>>

\* ----------------------------------------------------------- Host::capture

TaskIds == 1..Len(tasks)

Terminal(st) == st \in {"ok", "err", "cancelled"}

\* The byte a capture process writes after the bytes of `out`. The code
\* never looks at the value of a byte of the stream, so the stream is taken
\* with pairwise distinct bytes: a byte lost, repeated or out of place shows.
next_byte(out) == Len(out) + 1

\* FailedTask as it would be if a capture whose remote process could not
\* be started were put back to start it again.
FailedTask_retried(t, why) ==
    IF t.st = "spawn" /\ t.spawns < 2
    THEN [t EXCEPT !.st = "spawn"]
    ELSE [t EXCEPT !.st = "err", !.err = why, !.pipe = <<>>,
                   !.sink = IF t.kind = "file" THEN t.sink ELSE <<>>]

\* Host::capture returns Err: the pipe is closed, a buffer sink is dropped
\* with the error, a file sink stays on disk as it is.
FailedTask(t, why) ==
    [t EXCEPT !.st = "err", !.err = why, !.pipe = <<>>,
              !.sink = IF t.kind = "file" THEN t.sink ELSE <<>>]

\* create_new_ok as it would be with File::create, which truncates a file
\* that exists.
create_truncating_ok(path, files) == Parent(path) \in files

\* Whether File::create_new can create the file: it must not exist, and
\* the directory it lies in must.
create_new_ok(path, files) == path \notin files /\ Parent(path) \in files

\* The sink is resolved: File::create_new on the output path, or an empty
\* buffer.
capture_create_new(i) ==
    /\ i \in TaskIds
    /\ tasks[i].st = "create"
    /\ LET t == tasks[i]
           path == capture_output_path(cfg.output_path, t.host)
       IN  IF path = None
           THEN /\ tasks' = [tasks EXCEPT ![i] = [t EXCEPT !.st = "spawn", !.kind = "buffer"]]
                /\ UNCHANGED <<fs, done>>
           ELSE \E io_ok \in BOOLEAN :
                  IF io_ok /\ create_new_ok(CHOOSE p \in path : TRUE, fs)
                  THEN /\ fs' = fs \cup path
                       /\ tasks' = [tasks EXCEPT ![i] =
                                      [t EXCEPT !.st = "spawn", !.kind = "file", !.path = path]]
                       /\ UNCHANGED done
                  ELSE /\ tasks' = [tasks EXCEPT ![i] =
                                      FailedTask(t, "could not create capture output file")]
                       /\ done' = Append(done, i)
                       /\ UNCHANGED fs
    /\ UNCHANGED <<restVars, cfg, calls, startVars, discVars, waitVars>>

\* files_after_err as it would be if a failed capture removed the file it
\* had created.
files_after_err_removed(files, t) == files \ (IF t.kind = "file" THEN t.path ELSE {})

\* The files on disk once Host::capture has returned Err after its sink was
\* resolved: the File is dropped, which closes it; nothing is removed.
files_after_err(files, t) == files

\* The remote capture tool is spawned with its stdout piped.
capture_spawn(i) ==
    /\ i \in TaskIds
    /\ tasks[i].st = "spawn"
    /\ \E spawned \in BOOLEAN :
         IF spawned
         THEN /\ tasks' = [tasks EXCEPT ![i] =
                             [@ EXCEPT !.st = "copy", !.proc = "running", !.spawns = @ + 1]]
              /\ UNCHANGED done
         ELSE /\ tasks' = [tasks EXCEPT ![i] =
                             FailedTask([@ EXCEPT !.spawns = @ + 1],
                                        "failed to start remote wireshark capture")]
              /\ done' = Append(done, i)
    /\ fs' = IF tasks'[i].st = "err" THEN files_after_err(fs, tasks[i]) ELSE fs
    /\ UNCHANGED <<restVars, cfg, calls, startVars, discVars, waitVars>>

\* The remote capture process writes one byte to its stdout.
remote_write(i) ==
    /\ i \in TaskIds
    /\ tasks[i].proc = "running"
    /\ tasks[i].st = "copy"
    /\ Len(tasks[i].out) < MaxBytes
    /\ tasks' = [tasks EXCEPT ![i] = [@ EXCEPT !.out = Append(@, next_byte(tasks[i].out)),
                                               !.pipe = Append(@, next_byte(tasks[i].out))]]
    /\ UNCHANGED <<restVars, cfg, fs, calls, startVars, discVars, done, waitVars>>

\* The remote capture process exits, which closes its stdout.
remote_exit(i) ==
    /\ i \in TaskIds
    /\ tasks[i].proc = "running"
    /\ \E status \in {"exit_success", "exit_failure"} :
         tasks' = [tasks EXCEPT ![i] = [@ EXCEPT !.proc = status]]
    /\ UNCHANGED <<restVars, cfg, fs, calls, startVars, discVars, done, waitVars>>

\* copy_chunk as it would be if a read of n bytes wrote only its first byte.
copy_chunk_short_write(t, n) ==
    [t EXCEPT !.sink = @ \o SubSeq(t.pipe, 1, 1),
              !.pipe = SubSeq(t.pipe, n + 1, Len(t.pipe))]

\* What one read of the copy loop moves from the pipe into the sink.
copy_chunk(t, n) ==
    [t EXCEPT !.sink = @ \o SubSeq(t.pipe, 1, n),
              !.pipe = SubSeq(t.pipe, n + 1, Len(t.pipe))]

\* tokio::io::copy(stdout, sink): one read of some of the bytes in the pipe,
\* the end of the stream once the process has exited and the pipe is empty,
\* or an I/O error.
capture_copy(i) ==
    /\ i \in TaskIds
    /\ tasks[i].st = "copy"
    /\ LET t == tasks[i]
       IN  \/ /\ t.pipe # <<>>
              /\ \E n \in 1..Len(t.pipe) : tasks' = [tasks EXCEPT ![i] = copy_chunk(t, n)]
              /\ UNCHANGED done
           \/ /\ t.pipe = <<>>
              /\ t.proc # "running"
              /\ tasks' = [tasks EXCEPT ![i] = [t EXCEPT !.st = "wait"]]
              /\ UNCHANGED done
           \/ /\ tasks' = [tasks EXCEPT ![i] = FailedTask(t, "failed to write capture")]
              /\ done' = Append(done, i)
    /\ fs' = IF tasks'[i].st = "err" THEN files_after_err(fs, tasks[i]) ELSE fs
    /\ UNCHANGED <<restVars, cfg, calls, startVars, discVars, waitVars>>

\* status_success as it would be if the exit status were not checked.
status_unchecked(status) == TRUE

\* Whether capture returns Ok for the exit status of the remote process.
status_success(status) == status = "exit_success"

\* capture.wait_with_output(), then the check of the exit status.
capture_wait_with_output(i) ==
    /\ i \in TaskIds
    /\ tasks[i].st = "wait"
    /\ tasks[i].proc # "running"
    /\ \E wait_ok \in BOOLEAN :
         tasks' = [tasks EXCEPT ![i] =
                     IF ~wait_ok THEN FailedTask(@, "remote capture failed")
                     ELSE IF ~status_success(@.proc)
                          THEN FailedTask(@, "remote capture failed with status")
                          ELSE [@ EXCEPT !.st = "ok"]]
    /\ done' = Append(done, i)
    /\ fs' = IF tasks'[i].st = "err" THEN files_after_err(fs, tasks[i]) ELSE fs
    /\ UNCHANGED <<restVars, cfg, calls, startVars, discVars, waitVars>>

\* ---------------------------------------------- Monitor::abort, Monitor::wait

\* JoinSet::abort_all on one task: a task that has not completed is
\* cancelled, a completed task keeps its result.
abort_task(t) ==
    IF Terminal(t.st) THEN t
    ELSE [t EXCEPT !.st = "cancelled", !.pipe = <<>>,
                   !.sink = IF t.kind = "file" THEN t.sink ELSE <<>>]

\* The tasks of s that have not completed, in the order of s.
RECURSIVE InFlight(_, _)
InFlight(ts, i) ==
    IF i > Len(ts) THEN <<>>
    ELSE (IF Terminal(ts[i].st) THEN <<>> ELSE <<i>>) \o InFlight(ts, i + 1)

\* Monitor::abort: captures.abort_all(). The handle stays with the caller.
abort ==
    /\ pc = "returned"
    /\ wpc = "idle"
    /\ tasks' = [i \in TaskIds |-> abort_task(tasks[i])]
    /\ done' = done \o InFlight(tasks, 1)
    /\ aborted' = TRUE
    /\ UNCHANGED <<restVars, cfg, fs, calls, startVars, discVars, wpc, waitResult>>

\* The caller calls Monitor::wait, which consumes the handle.
wait_call ==
    /\ pc = "returned"
    /\ wpc = "idle"
    /\ wpc' = "joining"
    /\ UNCHANGED <<restVars, cfg, fs, calls, startVars, discVars, capVars, waitResult, aborted>>

\* captures_all_joined as it would be if wait went on with the first task
\* that completed.
captures_first_joined(ts) == ts = <<>> \/ \E i \in 1..Len(ts) : Terminal(ts[i].st)

\* Whether captures.join_all() has every output: every task has completed.
captures_all_joined(ts) == \A i \in 1..Len(ts) : Terminal(ts[i].st)

\* The Capture a completed task returned.
CaptureOf(t) == [kind |-> t.kind, path |-> t.path, bytes |-> t.sink]

\* join_all as it would be if a result were tagged with the id of the host
\* at its position in the list and not with that of the task it came from.
join_all_tagged_by_position(ts, order) ==
    IF \E k \in 1..Len(order) : ts[order[k]].st = "cancelled"
    THEN [panic |-> TRUE, items |-> <<>>]
    ELSE [panic |-> FALSE,
          items |-> [k \in 1..Len(order) |->
                       [ok |-> ts[order[k]].st = "ok",
                        value |-> <<ts[k].host, CaptureOf(ts[order[k]])>>]]]

\* JoinSet::join_all: the outputs of the tasks in the order they completed;
\* it panics when a task was cancelled.
join_all(ts, order) ==
    IF \E k \in 1..Len(order) : ts[order[k]].st = "cancelled"
    THEN [panic |-> TRUE, items |-> <<>>]
    ELSE [panic |-> FALSE,
          items |-> [k \in 1..Len(order) |->
                       [ok |-> ts[order[k]].st = "ok",
                        value |-> <<ts[order[k]].host, CaptureOf(ts[order[k]])>>]]]

\* try_fold as it would be if wait kept the results of the tasks that
\* succeeded and left the failed ones out.
RECURSIVE try_fold_best_effort(_, _)
try_fold_best_effort(items, acc) ==
    IF items = <<>> THEN [ok |-> TRUE, value |-> acc]
    ELSE try_fold_best_effort(Tail(items),
                              IF Head(items).ok THEN Append(acc, Head(items).value) ELSE acc)

\* The try_fold of wait: the values of the items in order, or the error of
\* the first item that is one.
RECURSIVE try_fold(_, _)
try_fold(items, acc) ==
    IF items = <<>> THEN [ok |-> TRUE, value |-> acc]
    ELSE IF ~Head(items).ok THEN [ok |-> FALSE, value |-> <<>>]
    ELSE try_fold(Tail(items), Append(acc, Head(items).value))

\* Monitor::wait returns: join_all has every task's output.
wait_join_all ==
    /\ wpc = "joining"
    /\ captures_all_joined(tasks)
    /\ LET joined == join_all(tasks, done)
           folded == try_fold(joined.items, <<>>)
       IN  IF joined.panic
           THEN /\ wpc' = "panicked"
                /\ UNCHANGED waitResult
           ELSE IF ~folded.ok
           THEN /\ wpc' = "returned_err"
                /\ UNCHANGED waitResult
           ELSE /\ wpc' = "returned_ok"
                /\ waitResult' = folded.value
    /\ UNCHANGED <<restVars, cfg, fs, calls, startVars, discVars, capVars, aborted>>

\* ---------------------------------------------------------- specification

Next ==
    \/ start_create_dir_all
    \/ start_get_many
    \/ start_spawn_aid_capture
    \/ aid_capture_exit
    \/ start_spawn_associate
    \/ \E i \in 1..Len(joins) : associate(i)
    \/ start_join_all_associate
    \/ start_read_aids
    \/ start_parse_aids
    \/ start_set_association_id
    \/ start_spawn_captures
    \/ \E i \in TaskIds : capture_create_new(i)
    \/ \E i \in TaskIds : capture_spawn(i)
    \/ \E i \in TaskIds : remote_write(i)
    \/ \E i \in TaskIds : remote_exit(i)
    \/ \E i \in TaskIds : capture_copy(i)
    \/ \E i \in TaskIds : capture_wait_with_output(i)
    \/ abort
    \/ wait_call
    \/ wait_join_all

Spec == Init /\ [][Next]_vars

\* The longest list of MonitorLists: the most capture tasks of a run.
MaxTasks == 2

\* The steps the tokio runtime and the bounded remote commands take when
\* they can: the steps of start, the steps of every capture task other than
\* its failures, the exit of every capture process (its --autostop bounds
\* it) and the return of wait. The discovery process has no stop
\* condition and the caller is free to call wait and abort or not: they
\* are under no fairness.
Fairness ==
    /\ WF_vars(start_create_dir_all)
    /\ WF_vars(start_get_many)
    /\ WF_vars(start_spawn_aid_capture)
    /\ WF_vars(start_spawn_associate)
    /\ WF_vars(\E i \in 1..Len(joins) : associate(i))
    /\ WF_vars(start_join_all_associate)
    /\ WF_vars(start_read_aids)
    /\ WF_vars(start_parse_aids)
    /\ WF_vars(start_set_association_id)
    /\ WF_vars(start_spawn_captures)
    /\ \A i \in 1..MaxTasks :
          /\ WF_vars(capture_create_new(i))
          /\ WF_vars(capture_spawn(i))
          /\ WF_vars(capture_copy(i) /\ tasks'[i].st # "err")
          /\ WF_vars(capture_wait_with_output(i))
          /\ WF_vars(remote_exit(i))
    /\ WF_vars(wait_join_all)

SpecFair == Spec /\ Fairness


\* ---------------------------------------------------------- utils::run_all

\* Longest host iterable run_all is given.
MaxRunAllHosts == 2

\* `let mut start_port = 5000`: where the builder's counter starts.
StartPort == 5000

\* The hosts the script's commands run on: the access point and a station.
ScriptHosts == {"ap", "sta1"}

\* MonitorConfig::start has not been called.
MonitorIdle ==
    /\ cfg = [monitors |-> <<>>, targets |-> <<>>, set_aids |-> FALSE, output_path |-> None]
    /\ fs = {}
    /\ pc = "idle"
    /\ startErr = ""
    /\ errArgs = <<>>
    /\ monitor_hosts = <<>>
    /\ connected_hosts = <<>>
    /\ calls = <<>>
    /\ aidProc = "none"
    /\ joins = <<>>
    /\ aidText = <<>>
    /\ parsedAids = <<>>
    /\ aids = <<>>
    /\ aidIdx = 0
    /\ tasks = <<>>
    /\ done = <<>>
    /\ wpc = "idle"
    /\ waitResult = <<>>
    /\ aborted = FALSE

\* The server task of the script has been spawned with a host iterable and
\* has yet to run; the script has yet to reach its final step.
InitScript ==
    /\ MonitorIdle
    /\ PathIdle
    /\ HostsIdle
    /\ ra_hosts \in BoundedSeq(ScriptHosts, MaxRunAllHosts)
    /\ ra_pc = "start"
    /\ ra_n = StartPort
    /\ ra_cmds = <<>>
    /\ ra_done = <<>>
    /\ ra_out = <<>>
    /\ ra_err = 0
    /\ timer = "unarmed"
    /\ sel_pc = "before"
    /\ killall = "none"

\* The command builder `func` of the server task: it counts the captured
\* port counter up and formats the command of the host with it.
func(host, n) == [n |-> n + 1, command |-> [host |-> host, port |-> n + 1]]

\* The result of a command task: none yet, Err (the command could not be
\* launched or awaited), or Ok(Output).
NoResult == [kind |-> "none", status |-> 0, stdout |-> <<>>, stderr |-> <<>>]
TransportErr == [kind |-> "err", status |-> 0, stdout |-> <<>>, stderr |-> <<>>]

\* The Output of a command that ran to an exit: it reports its port on
\* stdout when it exits with 0, on stderr otherwise.
Output(command, status) ==
    [kind |-> "output", status |-> status,
     stdout |-> IF status = 0 THEN <<command.port>> ELSE <<>>,
     stderr |-> IF status = 0 THEN <<>> ELSE <<command.port>>]

ExitStatuses == {0, 1}

\* hosts.into_iter().for_each(..) from element i on, the counter being n:
\* the builder is called and the command is spawned, element by element.
RECURSIVE for_each_spawn(_, _, _)
for_each_spawn(hosts, i, n) ==
    IF i > Len(hosts) THEN [n |-> n, cmds |-> <<>>]
    ELSE LET built == func(hosts[i], n)
             rest == for_each_spawn(hosts, i + 1, built.n)
         IN  [n |-> rest.n,
              cmds |-> <<[host |-> hosts[i], command |-> built.command,
                          st |-> "running", result |-> NoResult]>> \o rest.cmds]

\* run_all up to its join_all: the commands are built and spawned.
run_all_spawn ==
    /\ ra_pc = "start"
    /\ LET r == for_each_spawn(ra_hosts, 1, ra_n)
       IN  /\ ra_n' = r.n
           /\ ra_cmds' = r.cmds
    /\ ra_pc' = "joining"
    /\ UNCHANGED <<monitorVars, hostsVars, raceVars, ra_hosts, ra_done, ra_out, ra_err>>

\* A command task completes: host.session.shell(command).output().await
\* returned an error, or the Output of the command.
command_complete(i) ==
    /\ i \in 1..Len(ra_cmds)
    /\ ra_cmds[i].st = "running"
    /\ \E result \in {TransportErr} \cup {Output(ra_cmds[i].command, e) : e \in ExitStatuses} :
         ra_cmds' = [ra_cmds EXCEPT ![i] = [@ EXCEPT !.st = "done", !.result = result]]
    /\ ra_done' = Append(ra_done, i)
    /\ UNCHANGED <<monitorVars, hostsVars, raceVars, ra_hosts, ra_pc, ra_n, ra_out, ra_err>>

\* commands_join_all as it would be if the results came in launch order.
commands_join_all_in_launch_order(cmds, order) ==
    [k \in 1..Len(cmds) |-> [task |-> k, host |-> cmds[k].host, result |-> cmds[k].result]]

\* commands.join_all(): the (host, result) of every task, in the order the
\* tasks completed.
commands_join_all(cmds, order) ==
    [k \in 1..Len(order) |->
        [task |-> order[k], host |-> cmds[order[k]].host, result |-> cmds[order[k]].result]]

\* is_err as it would be if a non-zero exit status counted as a failure.
is_err_or_nonzero(result) == result.kind = "err" \/ result.status # 0

\* The match on a command's result: Err(err) ends run_all.
is_err(result) == result.kind = "err"

\* The loop over the joined results from item k on: a pair is pushed for
\* every Ok, the first Err is returned and the pairs pushed so far dropped.
RECURSIVE collect(_, _, _)
collect(items, k, out) ==
    IF k > Len(items) THEN [ok |-> TRUE, err |-> 0, out |-> out]
    ELSE IF is_err(items[k].result) THEN [ok |-> FALSE, err |-> items[k].task, out |-> <<>>]
    ELSE collect(items, k + 1, Append(out, <<items[k].host, items[k].result>>))

\* commands_all_joined as it would be if run_all went on as soon as one
\* command had failed.
commands_joined_or_failed(cmds) ==
    \/ \A i \in 1..Len(cmds) : cmds[i].st = "done"
    \/ \E i \in 1..Len(cmds) : cmds[i].st = "done" /\ is_err(cmds[i].result)

\* Whether commands.join_all() has every result: every task has completed.
commands_all_joined(cmds) == \A i \in 1..Len(cmds) : cmds[i].st = "done"

\* join_all has every result (it waits for all tasks); run_all returns.
run_all_join ==
    /\ ra_pc = "joining"
    /\ commands_all_joined(ra_cmds)
    /\ LET r == collect(commands_join_all(ra_cmds, ra_done), 1, <<>>)
       IN  /\ ra_pc' = IF r.ok THEN "returned_ok" ELSE "returned_err"
           /\ ra_out' = r.out
           /\ ra_err' = r.err
    /\ UNCHANGED <<monitorVars, hostsVars, raceVars, ra_hosts, ra_n, ra_cmds, ra_done>>

\* ------------------------------------------- the scripts' final step

\* The script reaches its final select!: the 1-second sleep is armed and
\* raced against the JoinHandle of the server task.
script_select_start ==
    /\ sel_pc = "before"
    /\ sel_pc' = "selecting"
    /\ timer' = "armed"
    /\ UNCHANGED <<monitorVars, hostsVars, runAllVars, killall>>

\* The second of the sleep passes.
sleep_elapse ==
    /\ timer = "armed"
    /\ timer' = "elapsed"
    /\ UNCHANGED <<monitorVars, hostsVars, runAllVars, sel_pc, killall>>

\* select_ready as it would be if the server task were awaited alone.
select_ready_without_sleep(t, server) ==
    IF server \in {"returned_ok", "returned_err"} THEN {"aps"} ELSE {}

\* The branches of the select! that are ready: the sleep once it elapsed,
\* the server task once its run_all returned (it panics on an Err).
select_ready(t, server) ==
    (IF t = "elapsed" THEN {"sleep"} ELSE {})
        \cup (IF server \in {"returned_ok", "returned_err"} THEN {"aps"} ELSE {})

\* select! completes with a branch that is ready; when both are, with
\* either. The sleep branch starts `killall iperf3` on the access point,
\* the other one returns what the server task ended with.
select ==
    /\ sel_pc = "selecting"
    /\ \E branch \in select_ready(timer, ra_pc) :
         IF branch = "sleep"
         THEN /\ sel_pc' = "killing"
              /\ killall' = "running"
         ELSE /\ sel_pc' = IF ra_pc = "returned_ok" THEN "returned_ok"
                           ELSE "returned_err_server"
              /\ UNCHANGED killall
    /\ UNCHANGED <<monitorVars, hostsVars, runAllVars, timer>>

\* The killall command returns; its result is ignored and the script bails
\* with "AP iperf servers did not close correctly; remaining sessions killed".
killall_output ==
    /\ sel_pc = "killing"
    /\ \E r \in CommandOutcomes : killall' = r
    /\ sel_pc' = "returned_err_timeout"
    /\ UNCHANGED <<monitorVars, hostsVars, runAllVars, timer>>

NextScript ==
    \/ run_all_spawn
    \/ \E i \in 1..Len(ra_cmds) : command_complete(i)
    \/ run_all_join
    \/ script_select_start
    \/ sleep_elapse
    \/ select
    \/ killall_output

SpecScript == InitScript /\ [][NextScript]_vars

\* The timer fires, a select! with a ready branch is polled, and the short
\* killall command returns; nothing makes a server command exit.
SpecScriptFair ==
    /\ SpecScript
    /\ WF_vars(sleep_elapse)
    /\ WF_vars(select)
    /\ WF_vars(killall_output)

\* ---------------------------------------------------- HostsConfig::connect

\* Longest host list of a HostsConfig.
MaxConfigHosts == 3
\* Longest id list a registry is queried with.
MaxQueryIds == 2

\* The ids the hosts of a configuration may have.
ConfigIds == {"ap", "mon1", "sta1"}

\* The ids a registry is queried with: the ids above and one no host has.
QueryIds == ConfigIds \cup {UnknownId}

\* validate from host i on, ids being the set of ids inserted so far.
RECURSIVE validate_from(_, _, _)
validate_from(hosts, i, ids) ==
    IF i > Len(hosts) THEN [ok |-> TRUE, dup |-> ""]
    ELSE IF hosts[i] \in ids THEN [ok |-> FALSE, dup |-> hosts[i]]
    ELSE validate_from(hosts, i + 1, ids \cup {hosts[i]})

\* validate as it would be if it accepted every configuration.
validate_nothing(hosts) == [ok |-> TRUE, dup |-> ""]

\* HostsConfig::validate: the first id met a second time is an error.
validate(hosts) == validate_from(hosts, 1, {})

\* connect is called on a configuration.
InitHosts ==
    /\ MonitorIdle
    /\ PathIdle
    /\ ScriptIdle
    /\ hc_hosts \in BoundedSeq(ConfigIds, MaxConfigHosts)
    /\ hc_pc = "start"
    /\ hc_tasks = <<>>
    /\ hc_done = <<>>
    /\ hc_joined = 0
    /\ hc_map = {}
    /\ hc_err = <<>>
    /\ registry = None
    /\ query = NoQuery

\* A HostConfig::connect task as it is spawned.
NewConnect(id) == [id |-> id, st |-> "connecting", os |-> "", err |-> ""]

\* connect up to its join loop: the configuration is validated, then one
\* connect task per host is spawned.
connect_validate_spawn ==
    /\ hc_pc = "start"
    /\ LET v == validate(hc_hosts)
       IN  IF ~v.ok
           THEN /\ hc_pc' = "returned_err"
                /\ hc_err' = <<"duplicate host id", v.dup>>
                /\ UNCHANGED hc_tasks
           ELSE /\ hc_tasks' = [i \in 1..Len(hc_hosts) |-> NewConnect(hc_hosts[i])]
                /\ hc_pc' = "joining"
                /\ UNCHANGED hc_err
    /\ UNCHANGED <<monitorVars, scriptVars, hc_hosts, hc_done, hc_joined, hc_map,
                   registry, query>>

\* HostConfig::connect, first await: the ssh session is opened, or not.
session_connect(i) ==
    /\ i \in 1..Len(hc_tasks)
    /\ hc_tasks[i].st = "connecting"
    /\ \E opened \in BOOLEAN :
         IF opened
         THEN /\ hc_tasks' = [hc_tasks EXCEPT ![i] = [@ EXCEPT !.st = "probing"]]
              /\ UNCHANGED hc_done
         ELSE /\ hc_tasks' = [hc_tasks EXCEPT ![i] =
                                [@ EXCEPT !.st = "err", !.err = "error while opening session"]]
              /\ hc_done' = Append(hc_done, i)
    /\ UNCHANGED <<monitorVars, scriptVars, hc_hosts, hc_pc, hc_joined, hc_map, hc_err,
                   registry, query>>

\* HostConfig::connect, second await: `cat /etc/*-release`. An error of
\* output() ends the task with it; an Output is parsed whatever its status
\* (no DISTRIB_ID line gives HostOs::Other).
os_probe(i) ==
    /\ i \in 1..Len(hc_tasks)
    /\ hc_tasks[i].st = "probing"
    /\ \E r \in CommandOutcomes :
         hc_tasks' = [hc_tasks EXCEPT ![i] =
                        IF r = "launch_err"
                        THEN [@ EXCEPT !.st = "err", !.err = "os probe failed"]
                        ELSE [@ EXCEPT !.st = "ok",
                                       !.os = IF r = "ok" THEN "Ubuntu" ELSE "Other"]]
    /\ hc_done' = Append(hc_done, i)
    /\ UNCHANGED <<monitorVars, scriptVars, hc_hosts, hc_pc, hc_joined, hc_map, hc_err,
                   registry, query>>

\* next_host_is_err as it would be if a failed host were passed over.
next_host_is_err_ignored(t) == FALSE

\* `next_host??`: whether the task join_next handed over ended with Err.
next_host_is_err(t) == t.st = "err"

\* Dropping the JoinSet aborts the tasks that have not completed.
drop_join_set(ts) ==
    [i \in 1..Len(ts) |->
        IF ts[i].st \in {"connecting", "probing"} THEN [ts[i] EXCEPT !.st = "aborted"] ELSE ts[i]]

\* One turn of `while let Some(next_host) = tasks.join_next().await`: the
\* next completed task is taken; an Err returns it, dropping the map and
\* the JoinSet; a host is inserted. When the JoinSet is empty the loop ends
\* and connect returns the registry.
connect_join_next ==
    /\ hc_pc = "joining"
    /\ IF hc_joined < Len(hc_done)
       THEN LET t == hc_tasks[hc_done[hc_joined + 1]]
            IN  IF next_host_is_err(t)
                THEN /\ hc_pc' = "returned_err"
                     /\ hc_err' = <<t.err, t.id>>
                     /\ hc_map' = {}
                     /\ hc_tasks' = drop_join_set(hc_tasks)
                     /\ UNCHANGED <<hc_joined, registry>>
                ELSE /\ hc_map' = hc_map \cup {t.id}
                     /\ hc_joined' = hc_joined + 1
                     /\ UNCHANGED <<hc_pc, hc_err, hc_tasks, registry>>
       ELSE /\ hc_joined = Len(hc_tasks)
            /\ hc_pc' = "returned_ok"
            /\ registry' = Some(hc_map)
            /\ UNCHANGED <<hc_err, hc_map, hc_tasks, hc_joined>>
    /\ UNCHANGED <<monitorVars, scriptVars, hc_hosts, hc_done, query>>

\* ------------------------------------------------------------------ Hosts

\* The key set of the registry connect returned.
RegistryMap == CHOOSE map \in registry : TRUE

\* The orders HashMap::values may iterate a map with the key set S in.
ValuesOrders(S) == {order \in [1..Cardinality(S) -> S] : Range(order) = S}

\* The caller calls get_many on the registry (one call is followed).
hosts_get_many ==
    /\ registry # None
    /\ query = NoQuery
    /\ \E ids \in BoundedSeq(QueryIds, MaxQueryIds) :
         LET r == Hosts_get_many(RegistryMap, ids)
         IN  query' = [op |-> "get_many", ids |-> ids, ok |-> r.ok,
                       missing |-> r.missing, hosts |-> r.hosts]
    /\ UNCHANGED <<monitorVars, scriptVars, hc_hosts, hc_pc, hc_tasks, hc_done,
                   hc_joined, hc_map, hc_err, registry>>

\* The caller calls all_except on the registry and collects the iterator
\* (one call is followed).
hosts_all_except ==
    /\ registry # None
    /\ query = NoQuery
    /\ \E ids \in BoundedSeq(QueryIds, MaxQueryIds) :
         \E values \in ValuesOrders(RegistryMap) :
            query' = [op |-> "all_except", ids |-> ids, ok |-> TRUE, missing |-> "",
                      hosts |-> all_except(RegistryMap, values, ids)]
    /\ UNCHANGED <<monitorVars, scriptVars, hc_hosts, hc_pc, hc_tasks, hc_done,
                   hc_joined, hc_map, hc_err, registry>>

NextHosts ==
    \/ connect_validate_spawn
    \/ \E i \in 1..Len(hc_tasks) : session_connect(i)
    \/ \E i \in 1..Len(hc_tasks) : os_probe(i)
    \/ connect_join_next
    \/ hosts_get_many
    \/ hosts_all_except

SpecHosts == InitHosts /\ [][NextHosts]_vars

\* ------------------------------------------- the output paths of a launch

\* Most characters of a host id.
MaxIdLen == 3

\* The characters host ids are made of.
IdAlphabet == {"a", "b", "."}

\* The host ids: the keys of the hosts table of the configuration, any
\* non-empty string. The names "." and ".." are left out: they are no file
\* names.
HostIdStrings ==
    {id \in BoundedSeq(IdAlphabet, MaxIdLen) : id \notin {<<>>, <<".">>, <<".", ".">>}}

\* A monitor list of two hosts with an output directory configured.
InitPath ==
    /\ MonitorIdle
    /\ ScriptIdle
    /\ HostsIdle
    /\ path_ids \in [1..2 -> HostIdStrings]
    /\ out_paths = <<>>

\* One pass of the launch loop: the output path of the next monitor host.
launch_output_path ==
    /\ Len(out_paths) < Len(path_ids)
    /\ out_paths' = Append(out_paths, capture_file(OutputDir, path_ids[Len(out_paths) + 1]))
    /\ UNCHANGED <<cfg, fs, calls, startVars, discVars, capVars, waitVars,
                   scriptVars, hostsVars, path_ids>>

NextPath == launch_output_path

SpecPath == InitPath /\ [][NextPath]_vars

\* ------------------------------------------------------------ properties

\* The set-association-id commands issued so far, in order.
SetAidCalls == SelectSeq(calls, LAMBDA c : c.cmd = "set_aid")

\* The capture tasks that ended with an error, that succeeded, that were
\* cancelled.
FailedTasks == {i \in TaskIds : tasks[i].st = "err"}
OkTasks == {i \in TaskIds : tasks[i].st = "ok"}
CancelledTasks == {i \in TaskIds : tasks[i].st = "cancelled"}

WaitOver == wpc \in {"returned_ok", "returned_err", "panicked"}

\* C1: Monitor::wait is all-or-nothing. When a capture task ended with an
\* error, no capture result is ever handed to the caller, and wait, once it
\* is over, has returned an error (when no task was cancelled by an abort;
\* join_all panics on a cancelled task, and the panic hands out no result
\* either). wait returns results only when every launched task succeeded,
\* and then one result per task.
C1_WaitAllOrNothing ==
    /\ FailedTasks # {} => waitResult = <<>> /\ wpc # "returned_ok"
    /\ (FailedTasks # {} /\ CancelledTasks = {} /\ WaitOver) => wpc = "returned_err"
    /\ wpc = "returned_ok" => OkTasks = TaskIds /\ Len(waitResult) = Len(tasks)
    /\ wpc # "returned_ok" => waitResult = <<>>

\* One task failed, another succeeded with a stream that is not empty, and
\* wait returned the error.
C1_Witness ==
    /\ wpc = "returned_err"
    /\ \E i \in FailedTasks, j \in OkTasks : tasks[j].sink # <<>>

\* C2 (as claimed): with discovery enabled, start does not go on to the
\* capture phase when fewer identifiers were parsed than there are monitor
\* hosts, and no identifier is assigned that was not parsed.
C2_ShortAidListIsAnError ==
    /\ (cfg.set_aids /\ pc = "launch") => Len(parsedAids) >= Len(monitor_hosts)
    /\ (cfg.set_aids /\ pc \in {"set_aid", "launch"}) =>
          \A k \in 1..Len(SetAidCalls) : SetAidCalls[k].arg \in Range(parsedAids)

\* C3 (as claimed): the assignment is positional over the parsed list: the
\* k-th set-association-id call goes to the k-th monitor host with the k-th
\* parsed identifier, and when the loop is over exactly min(N, M) calls were
\* made.
C3_AidAssignmentPositional ==
    (cfg.set_aids /\ pc \in {"set_aid", "launch"}) =>
        /\ Len(SetAidCalls) <= Min(Len(parsedAids), Len(monitor_hosts))
        /\ \A k \in 1..Len(SetAidCalls) :
              /\ SetAidCalls[k].host = monitor_hosts[k]
              /\ k <= Len(parsedAids) => SetAidCalls[k].arg = parsedAids[k]
        /\ pc = "launch" => Len(SetAidCalls) = Min(Len(parsedAids), Len(monitor_hosts))

\* The errors of the discovery steps.
DiscoveryErrors ==
    { "monitoring requires at least one monitor host",
      "failed to start AID monitor capture",
      "connecting to Wi-Fi network failed",
      "failed to read AID capture output to string",
      "could not parse association ID",
      "cannot set association ID for unsupported driver",
      "failed to set AID" }

\* No capture task exists and no capture process was ever spawned.
NoCapture == tasks = <<>>

\* C4: when a step of the discovery failed, start has returned an error and
\* no capture task was launched; capture tasks exist only once start has
\* returned its handle.
C4_DiscoveryFailureNoCapture ==
    /\ startErr \in DiscoveryErrors => pc = "failed" /\ NoCapture
    /\ pc = "failed" => startErr # "" /\ NoCapture
    /\ ~NoCapture => pc = "returned" /\ startErr = ""

\* The discovery failed at its last step, after a target had joined.
C4_Witness ==
    /\ pc = "failed"
    /\ startErr = "failed to set AID"
    /\ \E k \in 1..Len(calls) : calls[k].cmd = "nmcli" /\ calls[k].res = "ok"

\* Whether a configured id is not in the registry.
HasUnknownId == \E id \in Range(cfg.monitors) \cup Range(cfg.targets) : id \notin RegistryIds

\* C5: when the configuration names an id the registry does not hold, start
\* gets no further than the resolution of the ids, where it fails: no remote
\* command is issued, no remote process runs and no capture task exists.
C5_UnknownHostNoRemoteCommand ==
    HasUnknownId =>
        /\ pc \in {"create_dir", "resolve", "failed"}
        /\ pc = "failed" => startErr \in {"unknown host", "could not create output path"}
        /\ calls = <<>>
        /\ aidProc = "none"
        /\ NoCapture

\* start failed on an unknown id that is not the first id of its list.
C5_Witness ==
    /\ pc = "failed"
    /\ startErr = "unknown host"
    /\ Len(cfg.monitors) = 2
    /\ cfg.monitors[1] \in RegistryIds
    /\ cfg.set_aids

\* C6: once the join command of a target has failed (it could not be run, or
\* it exited without success), start gets no further than the join of the
\* associate tasks: no set-association-id command is ever issued, and start
\* fails.
C6_JoinFailureNoAssignment ==
    /\ (\E k \in 1..Len(calls) : calls[k].cmd = "nmcli" /\ calls[k].res # "ok") =>
          /\ pc \in {"join_all", "failed"}
          /\ pc = "failed" => startErr = "connecting to Wi-Fi network failed"
          /\ SetAidCalls = <<>>
          /\ NoCapture
    /\ startErr = "connecting to Wi-Fi network failed" =>
          pc = "failed" /\ SetAidCalls = <<>> /\ NoCapture

\* One target joined, a later one exited without success, and start failed.
C6_Witness ==
    /\ pc = "failed"
    /\ startErr = "connecting to Wi-Fi network failed"
    /\ \E j, k \in 1..Len(calls) :
          /\ j < k
          /\ calls[j].cmd = "nmcli" /\ calls[j].res = "ok"
          /\ calls[k].cmd = "nmcli" /\ calls[k].res = "exit_err"

\* The output path of the capture of task i.
TaskPath(i) == capture_output_path(cfg.output_path, tasks[i].host)

\* C7: the sink is resolved before the remote tool is started. A capture
\* whose output file exists when it resolves its sink fails with no spawn; a
\* capture that spawned has resolved its sink, and created its file itself
\* when it has an output path; of two captures with the same output path at
\* most one ever spawns.
C7_SinkBeforeSpawn ==
    /\ [][\A i \in TaskIds :
            (/\ tasks[i].st = "create"
             /\ TaskPath(i) \cap fs # {}
             /\ i \in DOMAIN tasks'
             /\ tasks'[i].st # "create")
            => (/\ tasks'[i].st \in {"err", "cancelled"}
                /\ tasks'[i].spawns = 0
                /\ tasks'[i].proc = "none")]_vars
    /\ [](\A i \in TaskIds :
            /\ tasks[i].spawns > 0 =>
                  /\ tasks[i].kind # "none"
                  /\ TaskPath(i) # None => tasks[i].kind = "file" /\ TaskPath(i) \subseteq fs
            /\ tasks[i].err = "could not create capture output file" =>
                  tasks[i].spawns = 0 /\ tasks[i].proc = "none")
    /\ [](\A i, j \in TaskIds :
            (i # j /\ TaskPath(i) # None /\ TaskPath(i) = TaskPath(j)) =>
                ~(tasks[i].spawns > 0 /\ tasks[j].spawns > 0))

\* Two captures had the same output path: the first created the file and
\* spawned, the second failed on the file without a spawn.
C7_Witness ==
    \E i, j \in TaskIds :
        /\ i # j
        /\ TaskPath(i) # None /\ TaskPath(i) = TaskPath(j)
        /\ tasks[i].kind = "file" /\ tasks[i].spawns = 1
        /\ tasks[j].err = "could not create capture output file" /\ tasks[j].spawns = 0

\* C8: the Capture of a capture that succeeded holds exactly the bytes its
\* remote process wrote to stdout, in order; the pairs wait returns are, for
\* each task, the id of its host with that Capture, a buffer when no output
\* directory is configured.
C8_CaptureBytesExact ==
    /\ \A i \in OkTasks : tasks[i].sink = tasks[i].out
    /\ wpc = "returned_ok" =>
          /\ Len(waitResult) = Len(done)
          /\ \A k \in 1..Len(waitResult) :
                /\ waitResult[k][1] = tasks[done[k]].host
                /\ waitResult[k][2].bytes = tasks[done[k]].out
                /\ cfg.output_path = None => waitResult[k][2].kind = "buffer"
                /\ cfg.output_path # None => waitResult[k][2].kind = "file"

\* Without an output directory, wait returned the buffer of a capture whose
\* process wrote MaxBytes bytes.
C8_Witness ==
    /\ wpc = "returned_ok"
    /\ cfg.output_path = None
    /\ \E k \in 1..Len(waitResult) :
          /\ waitResult[k][1] = "mon1"
          /\ Len(waitResult[k][2].bytes) = MaxBytes

\* C9: capture returns a Capture only when the remote process was started
\* (once), the copy reached the end of the stream and the process exited
\* with success; the exit status is awaited only once the stream is closed
\* and read to its end; a capture whose process exited without success never
\* returns a Capture.
C9_OkOnlyAfterExitSuccess ==
    \A i \in TaskIds :
        /\ tasks[i].st = "ok" =>
              /\ tasks[i].spawns = 1
              /\ tasks[i].pipe = <<>>
              /\ tasks[i].proc = "exit_success"
        /\ tasks[i].st = "wait" => tasks[i].pipe = <<>> /\ tasks[i].proc # "running"
        /\ tasks[i].proc = "exit_failure" => tasks[i].st # "ok"

\* A capture failed on the exit status after every byte was copied into its
\* file.
C9_Witness ==
    \E i \in TaskIds :
        /\ tasks[i].err = "remote capture failed with status"
        /\ tasks[i].kind = "file"
        /\ tasks[i].out # <<>>
        /\ tasks[i].sink = tasks[i].out

\* C10 (as claimed): after abort no capture result of the run is returned
\* to the caller: a later wait yields no per-host capture.
C10_AbortDiscardsResults ==
    aborted => waitResult = <<>>

\* C11 (as claimed): a capture task cancelled by Monitor::abort has no
\* remote capture process left running: the process of a cancelled task was
\* never started or has exited.
C11_AbortTerminatesRemote ==
    \A i \in TaskIds : tasks[i].st = "cancelled" => tasks[i].proc # "running"

\* C19: start returns the handle as soon as the capture tasks are spawned.
\* No capture task exists before start returns; at the step start returns
\* there is one task per monitor host and none of them has taken a step of
\* Host::capture (no sink, no remote process, nothing completed); whatever
\* a capture does, it does after the return, beside the caller.
C19_StartReturnsAtLaunch ==
    /\ [](pc # "returned" => tasks = <<>> /\ done = <<>>)
    /\ [][(pc # "returned" /\ pc' = "returned") =>
            /\ Len(tasks') = Len(monitor_hosts)
            /\ done' = <<>>
            /\ \A i \in 1..Len(tasks') :
                  /\ tasks'[i].host = monitor_hosts[i]
                  /\ tasks'[i].st = "create"
                  /\ tasks'[i].proc = "none"
                  /\ tasks'[i].spawns = 0]_vars

\* start has returned, the caller has called neither wait nor abort, and a
\* capture is still running: its remote process writes, the task copies.
C19_Witness ==
    /\ pc = "returned"
    /\ wpc = "idle"
    /\ ~aborted
    /\ \E i \in TaskIds :
          /\ tasks[i].st = "copy"
          /\ tasks[i].proc = "running"
          /\ tasks[i].sink # <<>>
          /\ Len(tasks[i].out) < MaxBytes

\* C20: in the assignment loop a paired monitor host whose wifi_driver is
\* not the supported one, unset included, ends start with the error
\* "cannot set association ID for unsupported driver (<driver>) on host
\* <id>", which names the driver ("unknown" when unset) and the host; no
\* set-association-id command is ever issued on a host without the
\* supported driver, and the loop does not run past such a host.
C20_UnsupportedDriverFails ==
    /\ [](\A k \in 1..Len(calls) :
             calls[k].cmd = "set_aid" => wifi_driver(calls[k].host) = Some("iwlwifi"))
    /\ [](startErr = "cannot set association ID for unsupported driver" =>
             /\ pc = "failed"
             /\ tasks = <<>>
             /\ Len(errArgs) = 2
             /\ errArgs[2] \in Range(cfg.monitors)
             /\ wifi_driver(errArgs[2]) # Some("iwlwifi")
             /\ errArgs[1] = unwrap_or_unknown(wifi_driver(errArgs[2]))
             /\ \A k \in 1..Len(calls) :
                   ~(calls[k].cmd = "set_aid" /\ calls[k].host = errArgs[2]))
    /\ [][(pc = "set_aid" /\ wifi_driver(monitor_hosts[aidIdx]) # Some("iwlwifi")) =>
            /\ pc' = "failed"
            /\ startErr' = "cannot set association ID for unsupported driver"
            /\ errArgs' = <<unwrap_or_unknown(wifi_driver(monitor_hosts[aidIdx])),
                            monitor_hosts[aidIdx]>>
            /\ calls' = calls]_vars

\* Discovery failed on a paired host that has no driver set: the error
\* names "unknown" and the host, after the joins and the parse went well.
C20_Witness ==
    /\ startErr = "cannot set association ID for unsupported driver"
    /\ errArgs = <<"unknown", "sta1">>
    /\ \E k \in 1..Len(calls) : calls[k].cmd = "nmcli" /\ calls[k].res = "ok"

\* run_all has returned.
RunAllOver == ra_pc \in {"returned_ok", "returned_err"}

\* C12: run_all fails exactly when the result of at least one command task
\* is a transport error, and then it returns the error of such a task and
\* no pair. A command that exited with a non-zero status never makes
\* run_all fail: when none of the tasks had a transport error run_all
\* returns Ok and the pair of every such command carries its status,
\* stdout and stderr.
C12_FailsIffTransportError ==
    RunAllOver =>
        /\ ra_pc = "returned_err" <=> \E i \in 1..Len(ra_cmds) : ra_cmds[i].result = TransportErr
        /\ ra_pc = "returned_err" =>
              /\ ra_out = <<>>
              /\ ra_err \in 1..Len(ra_cmds)
              /\ ra_cmds[ra_err].result = TransportErr
        /\ ra_pc = "returned_ok" =>
              /\ ra_err = 0
              /\ \A i \in 1..Len(ra_cmds) :
                    \E e \in ExitStatuses :
                       /\ ra_cmds[i].result = Output(ra_cmds[i].command, e)
                       /\ \E k \in 1..Len(ra_out) :
                             ra_out[k] = <<ra_cmds[i].host, Output(ra_cmds[i].command, e)>>

\* run_all returned Ok although one of its two commands exited with a
\* non-zero status, which is in the pairs with its stderr.
C12_Witness ==
    /\ ra_pc = "returned_ok"
    /\ Len(ra_out) = 2
    /\ \E k \in 1..Len(ra_out) : ra_out[k][2].status # 0 /\ ra_out[k][2].stderr # <<>>
    /\ \E k \in 1..Len(ra_out) : ra_out[k][2].status = 0

\* C13: the builder is called once per element of the iterable and one
\* command is spawned per element, built for that element's host; on
\* success run_all returns one pair per element, in the order the tasks
\* completed, and the pair of an element has its host and the Output of
\* the command built for it.
C13_OnePairPerElementInCompletionOrder ==
    /\ ra_pc \notin {"idle", "start"} =>
          /\ ra_n = StartPort + Len(ra_hosts)
          /\ Len(ra_cmds) = Len(ra_hosts)
          /\ \A i \in 1..Len(ra_cmds) :
                /\ ra_cmds[i].host = ra_hosts[i]
                /\ ra_cmds[i].command = [host |-> ra_hosts[i], port |-> StartPort + i]
    /\ ra_pc = "start" => ra_n = StartPort /\ ra_cmds = <<>>
    /\ ra_pc = "returned_ok" =>
          /\ Len(ra_out) = Len(ra_hosts)
          /\ Len(ra_done) = Len(ra_hosts)
          /\ \A i \in 1..Len(ra_hosts) : \E k \in 1..Len(ra_done) : ra_done[k] = i
          /\ \A k \in 1..Len(ra_out) :
                /\ ra_out[k][1] = ra_hosts[ra_done[k]]
                /\ ra_out[k][2] = ra_cmds[ra_done[k]].result
                /\ \E e \in ExitStatuses :
                      ra_out[k][2] = Output([host |-> ra_hosts[ra_done[k]],
                                             port |-> StartPort + ra_done[k]], e)

\* run_all returned the pairs of two commands on the same host, the one
\* launched second first, because it completed first.
C13_Witness ==
    /\ ra_pc = "returned_ok"
    /\ ra_hosts = <<"ap", "ap">>
    /\ ra_done = <<2, 1>>
    /\ ra_out[1][2].stdout = <<StartPort + 2>>
    /\ ra_out[2][2].stdout = <<StartPort + 1>>

\* The script's final step is over.
ScriptOver == sel_pc \in {"returned_ok", "returned_err_server", "returned_err_timeout"}

FailedConnects == {i \in 1..Len(hc_tasks) : hc_tasks[i].st = "err"}

\* C14: HostsConfig::connect is all-or-nothing. A registry exists only
\* when connect returned Ok, and then every configured host opened its
\* session and ran its probe, and the key set of the registry is the set of
\* the configured ids, whatever order the tasks completed in. Once the
\* session or the probe of a host has failed connect never returns a
\* registry; when connect returned an error of a connection it is the
\* error of a host that failed (the first one handed over), and the map
\* with the hosts inserted so far is dropped.
C14_ConnectAllOrNothing ==
    /\ registry # None <=> hc_pc = "returned_ok"
    /\ hc_pc = "returned_ok" =>
          /\ registry = Some(Range(hc_hosts))
          /\ hc_err = <<>>
          /\ Len(hc_tasks) = Len(hc_hosts)
          /\ \A i \in 1..Len(hc_tasks) : hc_tasks[i].st = "ok" /\ hc_tasks[i].id = hc_hosts[i]
    /\ FailedConnects # {} => hc_pc \in {"joining", "returned_err"}
    /\ hc_pc = "returned_err" =>
          /\ registry = None
          /\ hc_map = {}
          /\ query = NoQuery
          /\ \/ hc_err[1] = "duplicate host id"
             \/ /\ hc_done[hc_joined + 1] \in FailedConnects
                /\ hc_err = <<hc_tasks[hc_done[hc_joined + 1]].err,
                              hc_tasks[hc_done[hc_joined + 1]].id>>
                /\ \A k \in 1..hc_joined : hc_done[k] \notin FailedConnects

\* connect returned the probe error of a host after two other hosts had
\* connected and been inserted: no registry.
C14_Witness ==
    /\ hc_pc = "returned_err"
    /\ hc_joined = 2
    /\ hc_err[1] = "os probe failed"
    /\ registry = None

\* The configuration names an id twice.
HasDuplicateId == \E i, j \in 1..Len(hc_hosts) : i < j /\ hc_hosts[i] = hc_hosts[j]

\* The first position whose id was met before.
FirstRepeat == CHOOSE j \in 1..Len(hc_hosts) :
                  /\ \E i \in 1..(j - 1) : hc_hosts[i] = hc_hosts[j]
                  /\ \A k \in 1..(j - 1) : \A i \in 1..(k - 1) : hc_hosts[i] # hc_hosts[k]

\* C15: validate fails exactly on a list with a duplicate id, and names
\* it. connect on such a list returns the duplicate-id error naming
\* the duplicated id without spawning any connect task; on a list of
\* distinct ids connect never returns that error and spawns one task per
\* host.
C15_DuplicateIdRejectedFirst ==
    /\ validate(hc_hosts).ok <=> ~HasDuplicateId
    /\ HasDuplicateId =>
          /\ validate(hc_hosts).dup = hc_hosts[FirstRepeat]
          /\ hc_tasks = <<>> /\ hc_done = <<>> /\ registry = None
          /\ hc_pc \in {"start", "returned_err"}
          /\ hc_pc = "returned_err" => hc_err = <<"duplicate host id", hc_hosts[FirstRepeat]>>
    /\ ~HasDuplicateId =>
          /\ hc_err # <<>> => hc_err[1] # "duplicate host id"
          /\ hc_pc # "start" => Len(hc_tasks) = Len(hc_hosts)

\* connect returned the duplicate-id error for a list whose first and
\* third hosts share an id.
C15_Witness ==
    /\ hc_pc = "returned_err"
    /\ Len(hc_hosts) = 3
    /\ hc_hosts[1] = hc_hosts[3]
    /\ hc_hosts[1] # hc_hosts[2]
    /\ hc_err = <<"duplicate host id", hc_hosts[1]>>

\* C16: get_many(ids) on a registry returns either Err with the first id of
\* ids, in order, that the registry does not hold, and no host, or the
\* hosts of all ids: as many as ids, host k being the host of ids[k].
C16_GetManyAllOrFirstMissing ==
    query.op = "get_many" =>
        LET ids == query.ids
            unknown == {k \in 1..Len(ids) : ids[k] \notin RegistryMap}
        IN  /\ unknown = {} =>
                  /\ query.ok
                  /\ Len(query.hosts) = Len(ids)
                  /\ \A k \in 1..Len(ids) : query.hosts[k] = ids[k]
            /\ unknown # {} =>
                  /\ ~query.ok
                  /\ query.hosts = <<>>
                  /\ \E k \in unknown :
                        /\ query.missing = ids[k]
                        /\ \A j \in unknown : k <= j

\* get_many returned an error naming the second id: the first id has a
\* host, which is not returned.
C16_Witness ==
    /\ query.op = "get_many"
    /\ Len(query.ids) = 2
    /\ query.ids[1] \in RegistryMap
    /\ ~query.ok
    /\ query.missing = query.ids[2]

\* C17: all_except(S) yields the hosts of the registry whose id is not in
\* S, each of them once, whatever S holds (ids no host has, ids repeated)
\* and whatever order the map iterates in; it has no error.
C17_AllExceptComplement ==
    query.op = "all_except" =>
        /\ query.ok
        /\ Range(query.hosts) = RegistryMap \ Range(query.ids)
        /\ \A j, k \in 1..Len(query.hosts) : query.hosts[j] = query.hosts[k] => j = k

\* all_except was given an id no host has and the id of a host of a
\* registry of three: the two other hosts are yielded.
C17_Witness ==
    /\ query.op = "all_except"
    /\ Cardinality(RegistryMap) = 3
    /\ UnknownId \in Range(query.ids)
    /\ Range(query.ids) \cap RegistryMap # {}
    /\ Len(query.hosts) = 2

\* C21: with discovery enabled and an empty monitor list start fails as
\* soon as it looks for the discovery host: no remote command is ever
\* issued (no discovery process, no join), no capture task is spawned, and
\* start ends with an error, which is "monitoring requires at least one
\* monitor host" unless the output directory or a target id failed before.
C21_NoMonitorHostFailsAtOnce ==
    (cfg.set_aids /\ cfg.monitors = <<>>) =>
        /\ calls = <<>>
        /\ aidProc = "none"
        /\ joins = <<>>
        /\ tasks = <<>>
        /\ pc \in {"create_dir", "resolve", "aid_spawn", "failed"}
        /\ pc = "failed" =>
              startErr \in {"could not create output path", "unknown host",
                            "monitoring requires at least one monitor host"}

\* start failed for want of a monitor host although targets were
\* configured and resolved: none of them was sent a join command.
C21_Witness ==
    /\ cfg.set_aids
    /\ cfg.monitors = <<>>
    /\ Len(cfg.targets) = 2
    /\ pc = "failed"
    /\ startErr = "monitoring requires at least one monitor host"
    /\ calls = <<>>

\* The number a line of AidLineChoices stands for, worked out by hand: -1
\* for a line that is no hexadecimal number of 16 bits.
ExpectedAid(line) ==
    CASE line = <<"0", "x", "0", "0", "0", "2">> -> 2
      [] line = <<"0", "x", "c", "0", "0", "3">> -> 49155
      [] line = <<"f", "f", "f", "f">> -> 65535
      [] OTHER -> -1

\* C22: the parse of the discovery output. For a text made of the header
\* line and the lines ls, the parsed list is the numbers of the lines of
\* ls, in their order (the header is dropped, the prefix 0x is optional);
\* when a line of ls is no hexadecimal number in 0..65535 start fails with
\* "could not parse association ID" and issues no command. An empty text
\* gives the empty list. After a parse error no identifier is ever
\* assigned and no capture launched.
C22_ParseOfDiscoveryOutput ==
    /\ [][pc = "parse" =>
            /\ aidText = <<>> => parsedAids' = <<>> /\ pc' \in {"set_aid", "launch"}
            /\ \A ls \in BoundedSeq(AidLineChoices, MaxAidLines) :
                  aidText = Unlines(<<HeaderLine>> \o ls) =>
                     IF \A i \in 1..Len(ls) : ExpectedAid(ls[i]) >= 0
                     THEN /\ parsedAids' = [i \in 1..Len(ls) |-> ExpectedAid(ls[i])]
                          /\ pc' \in {"set_aid", "launch"}
                          /\ startErr' = ""
                     ELSE /\ pc' = "failed"
                          /\ startErr' = "could not parse association ID"
                          /\ calls' = calls]_vars
    /\ [](startErr = "could not parse association ID" =>
             /\ pc = "failed"
             /\ tasks = <<>>
             /\ \A k \in 1..Len(calls) : calls[k].cmd # "set_aid")

\* Two lines were parsed, one with and one without the prefix, and kept in
\* the order of the text.
C22_Witness ==
    /\ pc = "set_aid"
    /\ aidText = Unlines(<<HeaderLine, <<"f", "f", "f", "f">>, <<"0", "x", "0", "0", "0", "2">> >>)
    /\ parsedAids = <<65535, 2>>

\* How often x occurs in the list s.
Occurrences(s, x) == Cardinality({i \in 1..Len(s) : s[i] = x})

\* The number of commands cmd issued on host h so far.
CallCount(h, cmd) == Cardinality({k \in 1..Len(calls) : calls[k].host = h /\ calls[k].cmd = cmd})

\* C23: no remote action is attempted twice. A host receives at most one
\* join command per occurrence in the target list and at most one
\* set-association-id command per occurrence in the monitor list; the
\* discovery process is started at most once; there is at most one capture
\* task per entry of the monitor list and each starts its remote process
\* at most once. An action that failed is not repeated: a failed discovery
\* spawn or set-association-id command is the last command of the run and
\* start has failed; after a failed join start issues no further kind of
\* command and fails; a capture whose process failed to start has ended
\* with that error.
C23_NoRetry ==
    /\ \A h \in RegistryIds :
          /\ CallCount(h, "nmcli") <= Occurrences(cfg.targets, h)
          /\ CallCount(h, "set_aid") <= Occurrences(cfg.monitors, h)
          /\ Cardinality({i \in TaskIds : tasks[i].host = h}) <= Occurrences(cfg.monitors, h)
    /\ Cardinality({k \in 1..Len(calls) : calls[k].cmd = "tshark_aid"}) <= 1
    /\ \A i \in TaskIds : tasks[i].spawns <= 1
    /\ \A k \in 1..Len(calls) :
          /\ (calls[k].cmd \in {"tshark_aid", "set_aid"} /\ calls[k].res # "ok") =>
                k = Len(calls) /\ pc = "failed" /\ tasks = <<>>
          /\ (calls[k].cmd = "nmcli" /\ calls[k].res # "ok") =>
                /\ pc \in {"join_all", "failed"}
                /\ tasks = <<>>
                /\ \A j \in (k + 1)..Len(calls) : calls[j].cmd = "nmcli"
    /\ \A i \in TaskIds :
          (tasks[i].spawns = 1 /\ tasks[i].proc = "none") =>
              tasks[i].st = "err" /\ tasks[i].err = "failed to start remote wireshark capture"

\* The same host is listed twice as a monitor; the remote process of its
\* first capture task could not be started and the task ended with the
\* error, the second task started its own process once.
C23_Witness ==
    /\ Len(tasks) = 2
    /\ tasks[1].host = tasks[2].host
    /\ tasks[1].err = "failed to start remote wireshark capture"
    /\ tasks[1].spawns = 1
    /\ tasks[2].spawns = 1
    /\ tasks[2].proc = "running"

\* The state of the monitor in the terms of the state machine Configured ->
\* (Discovering) -> Capturing -> {Completed | Aborted}; "Failed" is start
\* having returned an error.
MonitorPhase ==
    IF pc = "failed" THEN "Failed"
    ELSE IF pc \in {"create_dir", "resolve"} THEN "Configured"
    ELSE IF pc = "launch" THEN (IF cfg.set_aids THEN "Discovering" ELSE "Configured")
    ELSE IF pc # "returned" THEN "Discovering"
    ELSE IF CancelledTasks # {} THEN "Aborted"
    ELSE IF wpc \in {"returned_ok", "returned_err"} THEN "Completed"
    ELSE "Capturing"

\* The moves of the state machine.
PhaseMoves ==
    { <<"Configured", "Discovering">>, <<"Configured", "Capturing">>,
      <<"Discovering", "Capturing">>, <<"Configured", "Failed">>,
      <<"Discovering", "Failed">>, <<"Capturing", "Completed">>,
      <<"Capturing", "Aborted">> }

\* MonitorPhase in the next state.
NextMonitorPhase == MonitorPhase'

C25_DiscoveryCaptureBeforeJoins ==
    /\ \A k \in 1..Len(calls) :
          calls[k].cmd = "nmcli" =>
             /\ k > 1
             /\ calls[1] = Call(cfg.monitors[1], "tshark_aid", 0, "ok")
             /\ aidProc # "none"
    /\ (\E k \in 1..Len(calls) : calls[k].cmd = "tshark_aid" /\ calls[k].res # "ok") =>
          /\ Len(calls) = 1
          /\ aidProc = "none"
          /\ joins = <<>>
          /\ pc = "failed"
          /\ startErr = "failed to start AID monitor capture"
    /\ pc \in {"join_spawn", "join_all"} => aidProc # "none" /\ aidText = <<>>

\* A target has been sent its join command while the discovery process,
\* started before, is running.
C25_Witness ==
    /\ pc = "join_all"
    /\ aidProc = "running"
    /\ Len(calls) = 2
    /\ calls[1].cmd = "tshark_aid"
    /\ calls[2].cmd = "nmcli"

\* C26 (as claimed): with discovery enabled, once every join command has
\* finished start goes on to return, with the handle or with an error:
\* the read of the discovery output comes to its end.
C26_DiscoveryReadEnds ==
    (cfg.set_aids /\ pc = "join_all" /\ \A i \in 1..Len(joins) : joins[i] # "running")
        ~> (pc \in {"returned", "failed"})

\* C27: wait returns only when every capture task has completed, also
\* when a task failed early, and never while a task is still running; with
\* every capture process exiting at last, a wait that was called returns.
C27_WaitJoinsAll ==
    /\ [](WaitOver => /\ \A i \in TaskIds : Terminal(tasks[i].st)
                      /\ Len(done) = Len(tasks))
    /\ [][(wpc = "joining" /\ \E i \in TaskIds : ~Terminal(tasks[i].st)) =>
             wpc' = "joining"]_vars
    /\ (wpc = "joining") ~> WaitOver

\* wait has been called, one capture task has failed and the other one is
\* still copying from its running process: wait has not returned.
C27_Witness ==
    /\ wpc = "joining"
    /\ ~aborted
    /\ \E i, j \in TaskIds :
          /\ tasks[i].st = "err"
          /\ tasks[j].st = "copy"
          /\ tasks[j].proc = "running"

\* C28: run_all looks at no result before every command it spawned has
\* finished: while a command is running run_all stays in the join, and
\* whenever it has returned, with a list or with an error, no command is
\* running; the error it returns is that of the failed command that
\* completed first.
C28_RunAllWaitsForAll ==
    /\ [](RunAllOver =>
            /\ \A i \in 1..Len(ra_cmds) : ra_cmds[i].st = "done"
            /\ Len(ra_done) = Len(ra_cmds)
            /\ ra_pc = "returned_err" =>
                  \E k \in 1..Len(ra_done) :
                     /\ ra_done[k] = ra_err
                     /\ ra_cmds[ra_done[k]].result = TransportErr
                     /\ \A j \in 1..(k - 1) : ra_cmds[ra_done[j]].result # TransportErr)
    /\ [][(ra_pc = "joining" /\ \E i \in 1..Len(ra_cmds) : ra_cmds[i].st # "done") =>
             ra_pc' = "joining"]_vars

\* Two commands failed, the one launched second first: run_all returned
\* after both had finished, with the error of the second.
C28_Witness ==
    /\ ra_pc = "returned_err"
    /\ Len(ra_cmds) = 2
    /\ ra_cmds[1].result = TransportErr
    /\ ra_cmds[2].result = TransportErr
    /\ ra_done = <<2, 1>>
    /\ ra_err = 2

\* C29 (as claimed): with an output directory configured the capture of a
\* monitor host is written to the directory's file named by the full host
\* id followed by ".pcapng", whatever the id; so two hosts with different
\* ids never get the same path.
C29_PathIsFullIdPcapng ==
    /\ \A k \in 1..Len(out_paths) :
          out_paths[k] = OutputDir \o <<"/">> \o path_ids[k] \o <<".">> \o Pcapng
    /\ \A j, k \in 1..Len(out_paths) :
          path_ids[j] # path_ids[k] => out_paths[j] # out_paths[k]

\* The hosts of the capture tasks, in the order the tasks were spawned.
TaskHosts == [i \in 1..Len(tasks) |-> tasks[i].host]

\* C30: start launches one capture task per entry of the monitor list, for
\* the host of that entry, and none for any other host: no task before
\* start returned, and a target that is no monitor host never captures.
\* When wait succeeds it returns one pair per launched task; the pair of a
\* task has the id of the task's host and the Capture that task produced,
\* so the ids returned are the monitor ids, each as often as it is listed.
C30_OneTaskPerMonitorHost ==
    /\ pc # "returned" => tasks = <<>>
    /\ pc = "returned" =>
          /\ TaskHosts = cfg.monitors
          /\ \A h \in RegistryIds \cup {UnknownId} :
                Occurrences(TaskHosts, h) = Occurrences(cfg.monitors, h)
          /\ \A j \in 1..Len(cfg.targets) :
                Occurrences(cfg.monitors, cfg.targets[j]) = 0 =>
                   Occurrences(TaskHosts, cfg.targets[j]) = 0
    /\ wpc = "returned_ok" =>
          /\ Len(waitResult) = Len(tasks)
          /\ Len(done) = Len(tasks)
          /\ \A i \in TaskIds : Occurrences(done, i) = 1
          /\ \A k \in 1..Len(waitResult) :
                waitResult[k] = <<tasks[done[k]].host, CaptureOf(tasks[done[k]])>>
          /\ \A h \in RegistryIds \cup {UnknownId} :
                Occurrences([k \in 1..Len(waitResult) |-> waitResult[k][1]], h)
                   = Occurrences(cfg.monitors, h)

\* wait returned the captures of two monitor hosts beside a target that
\* never captured; the host listed second finished first and its file is
\* the one its pair carries.
C30_Witness ==
    /\ wpc = "returned_ok"
    /\ cfg.monitors = <<"mon1", "mon2">>
    /\ cfg.targets = <<"sta1">>
    /\ done = <<2, 1>>
    /\ waitResult[1][1] = "mon2"
    /\ waitResult[1][2].path = capture_output_path(Some(OutputDir), "mon2")
    /\ waitResult[2][1] = "mon1"

\* C31 (as claimed): start resolves the id lists before it creates the
\* output directory: a start that has failed on an unknown host id has left
\* the filesystem as it found it. When start has returned the handle with an
\* output directory configured, the directory exists, and no capture task
\* exists before that.
C31_ResolveBeforeCreateDir ==
    /\ \A f \in FsChoices \cup {{}} :
          (fs = f) => [](startErr = "unknown host" => fs = f)
    /\ [](pc = "returned" /\ cfg.output_path # None => OutputDir \in fs)
    /\ [](pc # "returned" => tasks = <<>>)

\* C32: the set-association-id calls are issued one at a time and in the
\* order of the monitor list: the k-th call goes to the k-th monitor host.
\* A call that could not be run or exited without success is the last one
\* and start has failed with it; after the unsupported-driver error the
\* host it names is the one next in the list and got no call. Once start
\* has failed no further call is issued, and no step takes back or
\* repeats a call made before: the hosts before the failure keep what was
\* set on them.
C32_SetAidStopsAtFirstFailure ==
    /\ [](/\ Len(SetAidCalls) <= Len(cfg.monitors)
          /\ \A k \in 1..Len(SetAidCalls) :
                /\ SetAidCalls[k].host = cfg.monitors[k]
                /\ SetAidCalls[k].res # "ok" =>
                      /\ k = Len(SetAidCalls)
                      /\ pc = "failed"
                      /\ startErr = "failed to set AID"
                      /\ tasks = <<>>)
    /\ [](startErr = "cannot set association ID for unsupported driver" =>
             /\ pc = "failed"
             /\ Len(SetAidCalls) < Len(cfg.monitors)
             /\ cfg.monitors[Len(SetAidCalls) + 1] = errArgs[2]
             /\ \A k \in 1..Len(SetAidCalls) : SetAidCalls[k].res = "ok")
    /\ [][(/\ Len(SetAidCalls') \in {Len(SetAidCalls), Len(SetAidCalls) + 1}
           /\ SubSeq(SetAidCalls', 1, Len(SetAidCalls)) = SetAidCalls
           /\ (pc = "failed" => calls' = calls))]_vars

\* Of two monitor hosts with the supported driver the first one's call
\* exited without success: start failed and the second host got no call.
C32_Witness ==
    /\ pc = "failed"
    /\ startErr = "failed to set AID"
    /\ cfg.monitors = <<"mon1", "mon1">>
    /\ Len(SetAidCalls) = 1
    /\ SetAidCalls[1].host = "mon1"
    /\ SetAidCalls[1].res = "exit_err"

\* C33: a capture that fails after it created its output file leaves the
\* file in place: no step removes a file, and the file of a failed capture
\* with a file sink is on disk. A capture that comes to resolve its sink
\* when the file of its output path exists fails there and never starts
\* the remote tool. With a memory sink a failed capture leaves nothing: its
\* buffer is dropped and nothing is on disk.
C33_FailedCaptureKeepsFile ==
    /\ [][fs \subseteq fs']_vars
    /\ [](\A i \in TaskIds :
             /\ (tasks[i].st = "err" /\ tasks[i].kind = "file") =>
                   /\ tasks[i].path = TaskPath(i)
                   /\ tasks[i].path # None
                   /\ tasks[i].path \subseteq fs
             /\ (tasks[i].st = "err" /\ tasks[i].kind = "buffer") =>
                   /\ tasks[i].sink = <<>>
                   /\ tasks[i].path = None
                   /\ fs = {})
    /\ [][\A i \in TaskIds :
             (tasks[i].st = "create" /\ TaskPath(i) # None /\ TaskPath(i) \subseteq fs) =>
                \/ tasks'[i] = tasks[i]
                \/ tasks'[i].st = "cancelled"
                \/ /\ tasks'[i].st = "err"
                   /\ tasks'[i].err = "could not create capture output file"
                   /\ tasks'[i].spawns = 0
                   /\ tasks'[i].kind = "none"]_vars

\* Two captures have the same output path. The first created the file and
\* failed on the exit status of its remote process; the second came to its
\* sink afterwards and failed there, the remote tool not started.
C33_Witness ==
    /\ Len(tasks) = 2
    /\ TaskPath(1) # None
    /\ TaskPath(1) = TaskPath(2)
    /\ done = <<1, 2>>
    /\ tasks[1].st = "err"
    /\ tasks[1].kind = "file"
    /\ tasks[1].err = "remote capture failed with status"
    /\ tasks[1].path \subseteq fs
    /\ tasks[2].st = "err"
    /\ tasks[2].err = "could not create capture output file"
    /\ tasks[2].spawns = 0

\* C34 (as claimed): whenever start has returned after it started the
\* discovery process, with the handle or with the error of a later step,
\* that process is no longer running on the discovery host.
C34_DiscoveryProcessStopped ==
    (/\ pc \in {"returned", "failed"}
     /\ \E k \in 1..Len(calls) : calls[k].cmd = "tshark_aid" /\ calls[k].res = "ok")
        => aidProc # "running"

====
